---- MODULE Spec2Model ----
(***************************************************************************)
(* Model of the NameNode exporter (src/namenode/namenode_exporter.go):     *)
(* the 22 gauges of Exporter and the scrape cycle Exporter.Collect, which  *)
(* fetches the JMX document, walks its "beans" list and sets the gauges.   *)
(*                                                                         *)
(* A decoded JSON value (Go's interface{} after json.Unmarshal) is a       *)
(* record [k, l, n, o, s]: k is its dynamic kind, l the elements of a      *)
(* list, n a number (float64), o the fields of an object (a function on    *)
(* its keys), s a string.  JSON null and Go's nil interface are the kind   *)
(* "null".                                                                 *)
(***************************************************************************)
EXTENDS Integers, Sequences, FiniteSets, TLC

VARIABLES gauges, last, cycles, scr, base, batch

vars == <<gauges, last, cycles, scr, base, batch>>

\* ---------------------------------------------------------------- bounds
MaxLen == 2
MaxCycles == 2

\* ------------------------------------------------------- decoded values
Null == [k |-> "null", l |-> <<>>, n |-> 0, o |-> <<>>, s |-> ""]
Num(x) == [k |-> "num", l |-> <<>>, n |-> x, o |-> <<>>, s |-> ""]
Str(x) == [k |-> "str", l |-> <<>>, n |-> 0, o |-> <<>>, s |-> x]
Obj(f) == [k |-> "map", l |-> <<>>, n |-> 0, o |-> f, s |-> ""]
List(q) == [k |-> "list", l |-> q, n |-> 0, o |-> <<>>, s |-> ""]

\* m[key] on a Go map[string]interface{}: nil when the key is absent.
Lookup(m, key) == IF key \in DOMAIN m THEN m[key] ELSE Null
\* v.(float64), v.(map[string]interface{}), v.([]interface{}) succeed on:
IsFloat(v) == v.k = "num"
IsMap(v) == v.k = "map"
IsList(v) == v.k = "list"
\* v == "text" for an interface{} v and a string constant.
EqStr(v, text) == v.k = "str" /\ v.s = text

\* ------------------------------------------------------------ the names
FSNamesystemName == "Hadoop:service=NameNode,name=FSNamesystem"
NameNodeStatusName == "Hadoop:service=NameNode,name=NameNodeStatus"
ParNewName == "java.lang:type=GarbageCollector,name=ParNew"
ConcurrentMarkSweepName == "java.lang:type=GarbageCollector,name=ConcurrentMarkSweep"
MemoryName == "java.lang:type=Memory"

\* The gauges of Exporter, in the order Collect sends them to the channel.
GaugeOrder ==
    << "MissingBlocks", "UnderReplicatedBlocks", "CapacityTotal", "CapacityUsed",
       "CapacityRemaining", "CapacityUsedNonDFS", "BlocksTotal", "FilesTotal",
       "CorruptBlocks", "ExcessBlocks", "StaleDataNodes",
       "pnGcCount", "pnGcTime", "cmsGcCount", "cmsGcTime",
       "heapMemoryUsageCommitted", "heapMemoryUsageInit", "heapMemoryUsageMax",
       "heapMemoryUsageUsed", "lastHATransitionTime", "state", "isActive" >>

GaugeNames == {GaugeOrder[i] : i \in DOMAIN GaugeOrder}

\* NewExporter: every gauge is a fresh prometheus.NewGauge, whose value is 0.
NewExporter == [g \in GaugeNames |-> 0]

\* ------------------------------------------------- the steps of a cycle
\* One step of Collect that touches state other code can see.
SetOp(g, v) == [op |-> "set", g |-> g, v |-> v]
PanicOp == [op |-> "panic", g |-> "", v |-> 0]
GetOp(how) == [op |-> "get", g |-> how, v |-> 0]
DeferOp == [op |-> "defer", g |-> "", v |-> 0]
EmitOp(g) == [op |-> "emit", g |-> g, v |-> 0]
ReturnOp == [op |-> "return", g |-> "", v |-> 0]

\* e.G.Set(m[field].(float64)): the assertion panics unless the field is a number.
FieldSet(m, field, g) ==
    IF IsFloat(Lookup(m, field)) THEN SetOp(g, Lookup(m, field).n) ELSE PanicOp

FSNamesystemBlock(m) ==
    IF EqStr(Lookup(m, "name"), FSNamesystemName)
    THEN << FieldSet(m, "MissingBlocks", "MissingBlocks"),
            FieldSet(m, "UnderReplicatedBlocks", "UnderReplicatedBlocks"),
            FieldSet(m, "CapacityTotal", "CapacityTotal"),
            FieldSet(m, "CapacityUsed", "CapacityUsed"),
            FieldSet(m, "CapacityRemaining", "CapacityRemaining"),
            FieldSet(m, "CapacityUsedNonDFS", "CapacityUsedNonDFS"),
            FieldSet(m, "BlocksTotal", "BlocksTotal"),
            FieldSet(m, "FilesTotal", "FilesTotal"),
            FieldSet(m, "CorruptBlocks", "CorruptBlocks"),
            FieldSet(m, "ExcessBlocks", "ExcessBlocks"),
            FieldSet(m, "StaleDataNodes", "StaleDataNodes") >>
    ELSE <<>>

NameNodeStatusBlock(m) ==
    IF EqStr(Lookup(m, "name"), NameNodeStatusName)
    THEN << SetOp("state", IF EqStr(Lookup(m, "State"), "active") THEN 1 ELSE 0),
            FieldSet(m, "LastHATransitionTime", "lastHATransitionTime") >>
    ELSE <<>>

\* The ParNew block pasted from the ConcurrentMarkSweep one, gauges unchanged.
ParNewBlockPasted(m) ==
    IF EqStr(Lookup(m, "name"), ParNewName)
    THEN << FieldSet(m, "CollectionCount", "cmsGcCount"),
            FieldSet(m, "CollectionTime", "cmsGcTime") >>
    ELSE <<>>

ParNewBlock(m) ==
    IF EqStr(Lookup(m, "name"), ParNewName)
    THEN << FieldSet(m, "CollectionCount", "pnGcCount"),
            FieldSet(m, "CollectionTime", "pnGcTime") >>
    ELSE <<>>

ConcurrentMarkSweepBlock(m) ==
    IF EqStr(Lookup(m, "name"), ConcurrentMarkSweepName)
    THEN << FieldSet(m, "CollectionCount", "cmsGcCount"),
            FieldSet(m, "CollectionTime", "cmsGcTime") >>
    ELSE <<>>

MemoryBlock(m) ==
    IF EqStr(Lookup(m, "name"), MemoryName)
    THEN IF IsMap(Lookup(m, "HeapMemoryUsage"))
         THEN LET heapMemoryUsage == Lookup(m, "HeapMemoryUsage").o
              IN  << FieldSet(heapMemoryUsage, "committed", "heapMemoryUsageCommitted"),
                     FieldSet(heapMemoryUsage, "init", "heapMemoryUsageInit"),
                     FieldSet(heapMemoryUsage, "max", "heapMemoryUsageMax"),
                     FieldSet(heapMemoryUsage, "used", "heapMemoryUsageUsed") >>
         ELSE << PanicOp >>
    ELSE <<>>

\* isActive read from the State field, as the state gauge is.
HAStateBlockFromState(m) ==
    IF EqStr(Lookup(m, "name"), FSNamesystemName)
    THEN << SetOp("isActive", IF EqStr(Lookup(m, "State"), "active") THEN 1 ELSE 0) >>
    ELSE <<>>

HAStateBlock(m) ==
    IF EqStr(Lookup(m, "name"), FSNamesystemName)
    THEN << SetOp("isActive", IF EqStr(Lookup(m, "tag.HAState"), "active") THEN 1 ELSE 0) >>
    ELSE <<>>

\* The body of the range loop for one element of the list.
BeanOps(nameData) ==
    IF ~IsMap(nameData)
    THEN << PanicOp >>
    ELSE LET nameDataMap == nameData.o
         IN  FSNamesystemBlock(nameDataMap) \o NameNodeStatusBlock(nameDataMap)
             \o ParNewBlock(nameDataMap) \o ConcurrentMarkSweepBlock(nameDataMap)
             \o MemoryBlock(nameDataMap) \o HAStateBlock(nameDataMap)

\* The list walked from its end.
RECURSIVE LoopOpsBackwards(_)
LoopOpsBackwards(nameList) ==
    IF nameList = <<>> THEN <<>>
    ELSE LoopOpsBackwards(Tail(nameList)) \o BeanOps(Head(nameList))

RECURSIVE LoopOps(_)
LoopOps(nameList) ==
    IF nameList = <<>> THEN <<>>
    ELSE BeanOps(Head(nameList)) \o LoopOps(Tail(nameList))

EmitOps == [i \in DOMAIN GaugeOrder |-> EmitOp(GaugeOrder[i])]


\* ------------------------------------------------------ one scrape cycle
\* A decoder that keeps what it had stored when it met the error.
DecodedSoFar(up) == IF up.get = "ok" THEN up.top ELSE Null

\* What the upstream gave this cycle: how http.Get ended ("ok"; "nilresp", an
\* error with a nil response; "closedresp", the error of a failed redirect
\* check, whose response is non-nil with its body already closed), how
\* ioutil.ReadAll ended, and the bytes read: whether they are valid JSON and
\* the value they spell (for invalid bytes, the value of their valid prefix).
\* json.Unmarshal checks the whole input before it stores anything, so f
\* stays nil on an error; it stays nil too when there was nothing to read.
Decoded(up) == IF up.get = "ok" /\ up.json THEN up.top ELSE Null

\* Collect, as the steps it takes on this upstream answer.  The errors of
\* http.Get, ioutil.ReadAll and json.Unmarshal are logged and nothing else.
Program(up) ==
    << GetOp(up.get), DeferOp >>
    \o ( IF ~IsMap(Decoded(up))
         THEN << PanicOp >>
         ELSE LET m == Decoded(up).o
              IN  IF ~IsList(Lookup(m, "beans"))
                  THEN << PanicOp >>
                  ELSE LoopOps(Lookup(m, "beans").l) \o EmitOps \o << ReturnOp >> )

\* The locals of one call of Collect: the response (nil, its body open, its
\* body closed), whether a body was opened, whether Body.Close is deferred,
\* the metrics sent to ch, and how the call ended.
NewCall == [resp |-> "nil", opened |-> FALSE, deferred |-> FALSE, ch |-> <<>>,
            outcome |-> "running"]

\* Body.Close called at the end of Collect instead of deferred.
RunDeferredOnReturn(c) ==
    IF c.deferred /\ c.resp = "open" /\ c.outcome = "ok"
    THEN [c EXCEPT !.resp = "closed"] ELSE c

\* The deferred resp.Body.Close() runs when Collect returns and when it panics.
RunDeferred(c) ==
    IF c.deferred /\ c.resp = "open" THEN [c EXCEPT !.resp = "closed"] ELSE c

\* One step on the gauges g and the locals c.
Exec(op, g, c) ==
    CASE op.op = "get" ->
            [g |-> g,
             c |-> [c EXCEPT !.resp = IF op.g = "ok" THEN "open"
                                      ELSE IF op.g = "closedresp" THEN "closed"
                                      ELSE "nil",
                             !.opened = (op.g = "ok")]]
      [] op.op = "defer" ->
            \* resp.Body on a nil resp is a nil dereference: nothing is deferred.
            IF c.resp = "nil"
            THEN [g |-> g, c |-> RunDeferred([c EXCEPT !.outcome = "panic"])]
            ELSE [g |-> g, c |-> [c EXCEPT !.deferred = TRUE]]
      [] op.op = "set" ->
            [g |-> [g EXCEPT ![op.g] = op.v], c |-> c]
      [] op.op = "emit" ->
            [g |-> g, c |-> [c EXCEPT !.ch = Append(@, <<op.g, g[op.g]>>)]]
      [] op.op = "panic" ->
            [g |-> g, c |-> RunDeferred([c EXCEPT !.outcome = "panic"])]
      [] op.op = "return" ->
            [g |-> g, c |-> RunDeferred([c EXCEPT !.outcome = "ok"])]

\* The steps in order, until the call returns or panics.
RECURSIVE Run(_, _, _)
Run(ops, g, c) ==
    IF ops = <<>> \/ c.outcome # "running"
    THEN [g |-> g, c |-> c]
    ELSE LET r == Exec(Head(ops), g, c) IN Run(Tail(ops), r.g, r.c)


\* ------------------------------------------- the upstream's answers tried
\* The documents are built from beans in two versions; the number in a field
\* is different for every field and every version.
Versions == {1, 2}
IndexOf(g) == CHOOSE i \in DOMAIN GaugeOrder : GaugeOrder[i] = g
FieldVal(v, g) == 100 * v + IndexOf(g)
HAOf(v) == IF v = 1 THEN "active" ELSE "standby"
Other(h) == IF h = "active" THEN "standby" ELSE "active"

FSNumericFields == {GaugeOrder[i] : i \in 1..11}

\* The FSNamesystem bean of the comment in Collect; it also carries a State
\* field, which Collect must not read from this bean.
FSBean(v) ==
    Obj([f \in FSNumericFields \cup {"name", "tag.HAState", "State"} |->
           CASE f = "name" -> Str(FSNamesystemName)
             [] f = "tag.HAState" -> Str(HAOf(v))
             [] f = "State" -> Str(Other(HAOf(v)))
             [] OTHER -> Num(FieldVal(v, f))])

\* The NameNodeStatus bean; it also carries a tag.HAState field.
NNSBean(v) ==
    Obj([f \in {"name", "State", "LastHATransitionTime", "tag.HAState"} |->
           CASE f = "name" -> Str(NameNodeStatusName)
             [] f = "State" -> Str(HAOf(v))
             [] f = "tag.HAState" -> Str(Other(HAOf(v)))
             [] OTHER -> Num(FieldVal(v, "lastHATransitionTime"))])

GCBean(name, v, count, time) ==
    Obj([f \in {"name", "CollectionCount", "CollectionTime"} |->
           CASE f = "name" -> Str(name)
             [] f = "CollectionCount" -> Num(FieldVal(v, count))
             [] OTHER -> Num(FieldVal(v, time))])

PNBean(v) == GCBean(ParNewName, v, "pnGcCount", "pnGcTime")
CMSBean(v) == GCBean(ConcurrentMarkSweepName, v, "cmsGcCount", "cmsGcTime")

HeapUsage(v) ==
    Obj([f \in {"committed", "init", "max", "used"} |->
           CASE f = "committed" -> Num(FieldVal(v, "heapMemoryUsageCommitted"))
             [] f = "init" -> Num(FieldVal(v, "heapMemoryUsageInit"))
             [] f = "max" -> Num(FieldVal(v, "heapMemoryUsageMax"))
             [] OTHER -> Num(FieldVal(v, "heapMemoryUsageUsed"))])

MemBean(v) ==
    Obj([f \in {"name", "HeapMemoryUsage"} |->
           IF f = "name" THEN Str(MemoryName) ELSE HeapUsage(v)])

\* A bean without one of its fields, and with one field replaced.
Drop(b, field) == Obj([f \in DOMAIN b.o \ {field} |-> b.o[f]])
With(b, field, val) ==
    Obj([f \in DOMAIN b.o \cup {field} |-> IF f = field THEN val ELSE b.o[f]])

GoodBeans ==
    {FSBean(v) : v \in Versions} \cup {NNSBean(v) : v \in Versions}
    \cup {PNBean(v) : v \in Versions} \cup {CMSBean(v) : v \in Versions}
    \cup {MemBean(v) : v \in Versions}

\* Elements Collect passes over: a mapping without a name, a bean it does
\* not know.
IgnoredBeans ==
    { Drop(FSBean(2), "name"),
      With(PNBean(2), "name", Str("java.lang:type=Runtime")) }

\* A NameNodeStatus bean whose State is a string close to "active".
NearActiveBeans == { With(NNSBean(1), "State", Str("Active")) }

\* Elements with one consumed field missing or of the wrong kind, and an
\* element that is no mapping.
BrokenBeans ==
    { Drop(FSBean(2), "CapacityTotal"),
      With(FSBean(2), "StaleDataNodes", Str("0")),
      Drop(FSBean(1), "tag.HAState"),
      Drop(NNSBean(1), "State"),
      Drop(NNSBean(2), "LastHATransitionTime"),
      Drop(PNBean(2), "CollectionTime"),
      With(MemBean(2), "HeapMemoryUsage", Num(1)),
      With(MemBean(2), "HeapMemoryUsage", Drop(HeapUsage(2), "max")),
      Num(7) }

Beans == GoodBeans \cup IgnoredBeans \cup NearActiveBeans \cup BrokenBeans

BeanLists == UNION {[1..n -> Beans] : n \in 0..MaxLen}

Document(nameList) == Obj([f \in {"beans"} |-> List(nameList)])

\* Valid JSON without a list under "beans".
ShapelessTops ==
    { Null, Num(1), List(<< FSBean(1) >>),
      Obj([f \in {"other"} |-> List(<< FSBean(1) >>)]),
      Obj([f \in {"beans"} |-> Null]),
      Obj([f \in {"beans"} |-> FSBean(1)]) }

FullList(v) == << FSBean(v), NNSBean(v), PNBean(v), CMSBean(v), MemBean(v) >>

Answer(get, read, json, top) == [get |-> get, read |-> read, json |-> json, top |-> top]

Upstreams ==
    \* http.Get fails: nothing is read
    {Answer(get, "err", FALSE, Null) : get \in {"nilresp", "closedresp"}}
    \* the body is no valid JSON (nothing at all, or a document cut short)
    \cup {Answer("ok", read, FALSE, top) :
            read \in {"ok", "err"}, top \in {Null, Document(<< FSBean(2), NNSBean(2) >>)}}
    \cup {Answer("ok", "ok", TRUE, top) : top \in ShapelessTops}
    \cup {Answer("ok", "ok", TRUE, Document(q)) : q \in BeanLists}
    \* the answer of a healthy NameNode: one bean of every kind
    \cup {Answer("ok", "ok", TRUE, Document(FullList(v))) : v \in Versions}
    \* ReadAll fails after the bytes of a whole document were read
    \cup {Answer("ok", "err", TRUE, Document(<< b >>)) : b \in GoodBeans}

\* Answers whose list holds two different beans of one name, among well-formed
\* beans.
Repeats(q) ==
    \E i, j \in DOMAIN q : i < j /\ q[i] # q[j] /\ q[i].o["name"] = q[j].o["name"]
DupUpstreams ==
    {Answer("ok", "ok", TRUE, Document(q)) :
        q \in {r \in UNION {[1..n -> GoodBeans] : n \in 2..(MaxLen + 1)} : Repeats(r)}}

\* Answers for two scrapes that overlap.
ConcUpstreams ==
    {Answer("ok", "ok", TRUE, Document(<< NNSBean(v), PNBean(v) >>)) : v \in Versions}

\* ------------------------------------------------------------ the program
NoAnswer == Answer("none", "none", FALSE, Null)
NoCall == [up |-> NoAnswer, pre |-> NewExporter, c |-> NewCall]
Idle == [pc |-> 0, prog |-> <<>>, c |-> NewCall, up |-> NoAnswer]
Scrapers == {1, 2}

\* main: NewExporter and MustRegister; no scrape has run.
Init ==
    /\ gauges = NewExporter
    /\ last = NoCall
    /\ cycles = 0
    /\ scr = [p \in Scrapers |-> Idle]
    /\ base = NewExporter
    /\ batch = <<>>

\* One whole call of Collect, with no other call running.
Collect(up) ==
    /\ cycles < MaxCycles
    /\ LET r == Run(Program(up), gauges, NewCall)
       IN  /\ gauges' = r.g
           /\ last' = [up |-> up, pre |-> gauges, c |-> r.c]
    /\ cycles' = cycles + 1
    /\ UNCHANGED <<scr, base, batch>>

Scrape == \E up \in Upstreams : Collect(up)

\* A panic of Collect that nothing recovers ends the process; main runs again.
\* (A caller that recovers the panic lets the next scrape run on the old gauges.)
Restart ==
    /\ last.c.outcome = "panic"
    /\ gauges' = NewExporter
    /\ last' = NoCall
    /\ UNCHANGED <<cycles, scr, base, batch>>

Next == Scrape \/ Restart

Spec == Init /\ [][Next]_vars

\* Scrapes of answers that repeat a bean name.
ScrapeDup == \E up \in DupUpstreams : Collect(up)

NextDup == ScrapeDup

SpecDup == Init /\ [][NextDup]_vars

\* ---------------------------------------------- scrapes that overlap
\* The HTTP server serves every scrape request on a goroutine of its own and
\* Collect takes no lock: the calls of Collect interleave step by step.
\* base holds the gauges as they were when no call was running, batch the
\* answers of the calls started since.
Start(p, up) ==
    /\ cycles < MaxCycles
    /\ scr[p].pc = 0
    /\ scr' = [scr EXCEPT ![p] = [pc |-> 1, prog |-> Program(up), c |-> NewCall, up |-> up]]
    /\ IF \A q \in Scrapers : scr[q].pc = 0
       THEN base' = gauges /\ batch' = << up >>
       ELSE base' = base /\ batch' = Append(batch, up)
    /\ cycles' = cycles + 1
    /\ UNCHANGED <<gauges, last>>

Step(p) ==
    /\ scr[p].pc > 0
    /\ LET r == Exec(scr[p].prog[scr[p].pc], gauges, scr[p].c)
       IN  /\ gauges' = r.g
           /\ scr' = [scr EXCEPT ![p].c = r.c,
                                 ![p].pc = IF r.c.outcome = "running" THEN @ + 1 ELSE 0]
    /\ UNCHANGED <<last, cycles, base, batch>>

StartScrape == \E p \in Scrapers, up \in ConcUpstreams : Start(p, up)
StepScrape == \E p \in Scrapers : Step(p)

NextConc == StartScrape \/ StepScrape

SpecConc == Init /\ [][NextConc]_vars


\* ============================================================ the claims
\* The terms of the specification, for stating the claims.

\* The Field Mapping Table: the bean and the field each gauge is fed from.
HeapGauges == {"heapMemoryUsageCommitted", "heapMemoryUsageInit",
               "heapMemoryUsageMax", "heapMemoryUsageUsed"}
FlagGauges == {"state", "isActive"}
NumericGauges == GaugeNames \ FlagGauges

SourceName(g) ==
    CASE g \in FSNumericFields \cup {"isActive"} -> FSNamesystemName
      [] g \in {"state", "lastHATransitionTime"} -> NameNodeStatusName
      [] g \in {"pnGcCount", "pnGcTime"} -> ParNewName
      [] g \in {"cmsGcCount", "cmsGcTime"} -> ConcurrentMarkSweepName
      [] OTHER -> MemoryName

FieldOf(g) ==
    CASE g \in FSNumericFields -> g
      [] g = "isActive" -> "tag.HAState"
      [] g = "state" -> "State"
      [] g = "lastHATransitionTime" -> "LastHATransitionTime"
      [] g \in {"pnGcCount", "cmsGcCount"} -> "CollectionCount"
      [] g \in {"pnGcTime", "cmsGcTime"} -> "CollectionTime"
      [] g = "heapMemoryUsageCommitted" -> "committed"
      [] g = "heapMemoryUsageInit" -> "init"
      [] g = "heapMemoryUsageMax" -> "max"
      [] OTHER -> "used"

RecognisedNames == {SourceName(g) : g \in GaugeNames}

\* e is a mapping whose name is the string nm.
Named(e, nm) == IsMap(e) /\ EqStr(Lookup(e.o, "name"), nm)

\* The value at the field path of gauge g in the mapping e (null when missing).
Source(e, g) ==
    IF g \in HeapGauges
    THEN IF IsMap(Lookup(e.o, "HeapMemoryUsage"))
         THEN Lookup(Lookup(e.o, "HeapMemoryUsage").o, FieldOf(g))
         ELSE Null
    ELSE Lookup(e.o, FieldOf(g))

\* e is the source bean of g and carries g's field at all.
Carries(e, g) == Named(e, SourceName(g)) /\ Source(e, g).k # "null"

\* e is the source bean of g and g's field is of the expected kind.
Resolves(e, g) ==
    /\ Named(e, SourceName(g))
    /\ Source(e, g).k = (IF g \in FlagGauges THEN "str" ELSE "num")

Coerced(e, g) ==
    IF g \in FlagGauges
    THEN (IF Source(e, g).s = "active" THEN 1 ELSE 0)
    ELSE Source(e, g).n

MaxOf(S) == CHOOSE i \in S : \A j \in S : j <= i

\* Section 4.2 of the specification: every mapping that resolves sets its
\* gauge, later elements after earlier ones; every other gauge keeps its value.
Intended(nameList, pre) ==
    [g \in GaugeNames |->
        LET R == {i \in DOMAIN nameList : Resolves(nameList[i], g)}
        IN  IF R = {} THEN pre[g] ELSE Coerced(nameList[MaxOf(R)], g)]

\* How the answer of a cycle fails, in the specification's taxonomy.
GetFailed(up) == up.get \in {"nilresp", "closedresp"}
DecodeFailed(up) == up.get = "ok" /\ ~up.json
Iterable(up) ==
    /\ up.get = "ok" /\ up.json
    /\ IsMap(up.top) /\ IsList(Lookup(up.top.o, "beans"))
ShapeFailed(up) == up.get = "ok" /\ up.json /\ ~Iterable(up)
CycleFailed(up) == GetFailed(up) \/ DecodeFailed(up) \/ ShapeFailed(up)

\* A call of Collect has ended and nothing has happened since.
Ran == last.c.outcome \in {"ok", "panic"}
LastList == IF Iterable(last.up) THEN Lookup(last.up.top.o, "beans").l ELSE <<>>

\* Every element is a mapping, and a recognised bean has each numeric field
\* it is read for (a name, or a State or tag.HAState string, may be missing).
WellFormed(nameList) ==
    \A i \in DOMAIN nameList :
        /\ IsMap(nameList[i])
        /\ \A g \in NumericGauges :
              Named(nameList[i], SourceName(g)) => Resolves(nameList[i], g)

Occurrences(nameList, nm) == {i \in DOMAIN nameList : Named(nameList[i], nm)}

AllSent(g) == [i \in DOMAIN GaugeOrder |-> <<GaugeOrder[i], g[GaugeOrder[i]]>>]

\* C1: a cycle that fails with an http.Get error, a body that is no valid
\* JSON, or a document without a list under "beans" is aborted and leaves
\* every one of the 22 gauges at the value it had before the cycle.
C1_FailedCycleLeavesGauges ==
    (Ran /\ CycleFailed(last.up)) =>
        /\ last.c.outcome # "ok"
        /\ last.c.ch = <<>>
        /\ \A g \in GaugeNames : gauges[g] = last.pre[g]

\* A body cut short after two beans, scraped when gauges were already set.
C1_Witness ==
    /\ Ran /\ DecodeFailed(last.up) /\ IsMap(last.up.top)
    /\ last.pre["CapacityTotal"] = FieldVal(1, "CapacityTotal")
    /\ last.pre["state"] = 1
    /\ gauges = last.pre

\* C2: a cycle that hits a Transport, Decode or Shape failure does not end
\* abnormally: it delivers all 22 gauges with their last good values.
C2_FailedCycleStillServes ==
    (Ran /\ CycleFailed(last.up)) =>
        /\ last.c.outcome # "panic"
        /\ last.c.ch = AllSent(last.pre)

\* A list of mappings in which a recognised bean has a consumed field missing
\* or of the wrong kind.
C3_Case ==
    /\ Ran /\ Iterable(last.up)
    /\ \A i \in DOMAIN LastList : IsMap(LastList[i])
    /\ \E i \in DOMAIN LastList, g \in GaugeNames :
          Named(LastList[i], SourceName(g)) /\ ~Resolves(LastList[i], g)

\* C3: when a recognised bean has a consumed field missing or of the wrong
\* kind, only that mapping is skipped: the cycle succeeds and every other
\* mapping of the list has set its gauge.
C3_FieldSkipIsLocal ==
    C3_Case => /\ last.c.outcome = "ok"
               /\ gauges = Intended(LastList, last.pre)

\* A list with an element that is no mapping or has no name string, all
\* others being well-formed beans.
BadElement(e) == ~IsMap(e) \/ Lookup(e.o, "name").k # "str"
GoodElement(e) ==
    /\ IsMap(e) /\ Lookup(e.o, "name").k = "str"
    /\ \A g \in GaugeNames : Named(e, SourceName(g)) => Resolves(e, g)

C4_Case ==
    /\ Ran /\ Iterable(last.up)
    /\ \E i \in DOMAIN LastList : BadElement(LastList[i])
    /\ \A i \in DOMAIN LastList : BadElement(LastList[i]) \/ GoodElement(LastList[i])

\* C4: an element of the list that lacks a name or is no mapping is skipped,
\* and the gauges are set from every other, well-formed element of the list.
C4_BadElementSkipped ==
    C4_Case => /\ last.c.outcome = "ok"
               /\ gauges = Intended(LastList, last.pre)

\* The gauges after a whole call of Collect on the gauges g.
AfterCall(g, up) == Run(Program(up), g, NewCall).g
\* The gauges after the two calls of the batch, run one after the other.
SerialGauges ==
    {AfterCall(AfterCall(base, batch[1]), batch[2]),
     AfterCall(AfterCall(base, batch[2]), batch[1])}
\* What a call answered with up sends when it runs first, and when second.
SerialSent(up) ==
    {AllSent(AfterCall(base, up))}
    \cup {AllSent(AfterCall(AfterCall(base, other), up)) :
            other \in {batch[i] : i \in DOMAIN batch}}

\* C5: two scrape cycles that overlap are serialised: once both have ended,
\* the gauges are those of the two cycles run one after the other, and what
\* each sent is what it would have sent in one of the two orders.
C5_OverlappingCyclesSerialised ==
    ((\A p \in Scrapers : scr[p].pc = 0) /\ Len(batch) = 2) =>
        /\ gauges \in SerialGauges
        /\ \A p \in Scrapers :
              scr[p].c.outcome = "ok" => scr[p].c.ch \in SerialSent(scr[p].up)

C7_LastWriteWins ==
    (Ran /\ Iterable(last.up) /\ WellFormed(LastList)) =>
        \A nm \in RecognisedNames :
            LET occ == Occurrences(LastList, nm)
            IN  Cardinality(occ) >= 2 =>
                  \A g \in GaugeNames :
                      (SourceName(g) = nm /\ Resolves(LastList[MaxOf(occ)], g))
                          => gauges[g] = Coerced(LastList[MaxOf(occ)], g)

\* Two FSNamesystem beans with another bean between them: the second wins.
C7_Witness ==
    /\ Ran /\ Len(LastList) = 3
    /\ LastList[1] = FSBean(2) /\ LastList[2] = MemBean(1) /\ LastList[3] = FSBean(1)
    /\ last.pre["MissingBlocks"] = FieldVal(2, "MissingBlocks")
    /\ gauges["MissingBlocks"] = FieldVal(1, "MissingBlocks")
    /\ gauges["isActive"] = 1

\* C8: the response body a cycle opened is closed when the cycle ends, on
\* the return and on every panic.
C8_BodyReleased == Ran => last.c.resp # "open"

\* A cycle that opened a body and panicked on a field of a bean.
C8_Witness ==
    /\ Ran /\ last.c.opened /\ last.c.outcome = "panic"
    /\ Iterable(last.up) /\ last.c.resp = "closed"
    /\ gauges # last.pre

\* C9: for a well-formed list the cycle succeeds and each numeric gauge
\* holds exactly the number of its own source field (of the last bean of
\* its name), and keeps its value when the list has no such bean.
C9_IdentityMapping ==
    (Ran /\ Iterable(last.up) /\ WellFormed(LastList)) =>
        /\ last.c.outcome = "ok"
        /\ \A g \in NumericGauges :
              LET occ == Occurrences(LastList, SourceName(g))
              IN  gauges[g] = IF occ = {} THEN last.pre[g]
                              ELSE Source(LastList[MaxOf(occ)], g).n

\* The answer of a healthy NameNode, scraped over gauges of the other version.
C9_Witness ==
    /\ Ran /\ LastList = FullList(2)
    /\ last.pre["heapMemoryUsageMax"] = FieldVal(1, "heapMemoryUsageMax")
    /\ \A g \in NumericGauges : gauges[g] = FieldVal(2, g)

\* The flag gauge g after the last cycle, against the last bean of its name.
FlagFollows(g) ==
    LET occ == Occurrences(LastList, SourceName(g))
    IN  IF occ = {}
        THEN gauges[g] = last.pre[g]
        ELSE Source(LastList[MaxOf(occ)], g).k = "str" =>
                gauges[g] = (IF Source(LastList[MaxOf(occ)], g).s = "active" THEN 1 ELSE 0)

\* C10: in a well-formed list, the state gauge is 1 when State of the
\* NameNodeStatus bean is "active" and 0 when it is another string, and is
\* untouched without such a bean; isActive follows tag.HAState of the
\* FSNamesystem bean in the same way; neither follows the other bean.
C10_ActiveFlags ==
    (Ran /\ Iterable(last.up) /\ WellFormed(LastList)) =>
        FlagFollows("state") /\ FlagFollows("isActive")

\* An active FSNamesystem bean beside a standby NameNodeStatus bean.
C10_Witness ==
    /\ Ran /\ LastList = << FSBean(1), NNSBean(2) >>
    /\ last.pre["state"] = 1 /\ last.pre["isActive"] = 0
    /\ gauges["state"] = 0 /\ gauges["isActive"] = 1

====
